---- MODULE Spec2Model ----
(***************************************************************************)
(* Model of the 5GS NAS codec of gnbsim (encoding/nas/nas.go): the UE      *)
(* context, UE.Decode with its security-header recursion and information   *)
(* element parser, the AKA verification of the Authentication Request and  *)
(* the encoders of the Authentication Response and of the Registration     *)
(* Request, Str2BCD and the RES* derivation.  A Go string is modelled as   *)
(* the sequence of its bytes.                                              *)
(*                                                                         *)
(* A Go slice is modelled as a window [off, off+len) on a backing array    *)
(* buf whose capacity ends at Len(buf): s[i] and s[k:] are checked against *)
(* len, s[:k] against cap, as the Go runtime does.  A failed check is a    *)
(* run-time panic; the context keeps whatever was assigned before it.      *)
(* Every Decode call receives a backing array of its own.                  *)
(***************************************************************************)
EXTENDS Integers, Sequences, FiniteSets, TLC

VARIABLES MSIN, MCC, MNC, RoutingIndicator, ProtectionScheme, AuthParam,
          securityHeaderParsed, lastAuth, lastDecode, calls, pc, ret

vars == <<MSIN, MCC, MNC, RoutingIndicator, ProtectionScheme, AuthParam,
          securityHeaderParsed, lastAuth, lastDecode, calls, pc, ret>>

\* ------------------------------------------------------------ bounds
\* Largest number of information elements in a generated PDU body.
MaxIEs == 3
\* Decode calls made on one UE context.
MaxCalls == 2
\* Bytes of backing array lying behind the received bytes (cap - len) in
\* the generated buffers that have spare capacity.
SpareCap == 20
\* Longest string handed to Str2BCD on its own.
MaxDigits == 4

\* ------------------------------------------------------------ constants
EPD5GSMobilityManagement == 126
SecurityHeaderTypePlain == 0
MessageTypeRegistrationRequest == 65
MessageTypeAuthenticationRequest == 86
MessageTypeAuthenticationResponse == 87
MessageTypeSecurityModeCommand == 93
ieiIMEISVRequest == 14
iei5GMMCapability == 16
ieiAuthParamAUTN == 32
ieiAuthParamRAND == 33
ieiAuthParamRES == 45
ieiUESecurityCapability == 46
ieiAdditional5GSecurityInformation == 54
ieiNonSupported == 255
randlen == 16
FiveGMMCapN3data == 32
TypeIDSUCI == 1
SUPIFormatIMSI == 0
ProtectionSchemeNull == 0
RegistrationTypeInitialRegistration == 1
RegistrationTypeFlagFollowOnRequestPending == 8
KeySetIdentityNoKeyIsAvailable == 7
EA0 == 128
IA0 == 128
IA2 == 32

\* The identifiers that have an entry in the ieStr map.
ieStr == {ieiIMEISVRequest, iei5GMMCapability, ieiAuthParamAUTN,
          ieiAuthParamRAND, ieiAuthParamRES, ieiUESecurityCapability,
          ieiAdditional5GSecurityInformation, ieiNonSupported}

\* ------------------------------------------------------------ bytes
RECURSIVE BitAnd(_, _)
BitAnd(a, b) ==
  IF a = 0 \/ b = 0 THEN 0
  ELSE (a % 2) * (b % 2) + 2 * BitAnd(a \div 2, b \div 2)

RECURSIVE BitXor(_, _)
BitXor(a, b) ==
  IF a = 0 THEN b
  ELSE IF b = 0 THEN a
  ELSE ((a + b) % 2) + 2 * BitXor(a \div 2, b \div 2)

\* a | b
BitOr(a, b) == a + b - BitAnd(a, b)

Zeros(n) == [i \in 1..n |-> 0]

\* binary.BigEndian.PutUint16
PutUint16(v) == <<(v \div 256) % 256, v % 256>>

\* binary.BigEndian.Uint16 of a slice of at least two bytes
Uint16(b) == b[1] * 256 + b[2]

\* ------------------------------------------------------------ primitives
(* The Milenage functions and HMAC-SHA-256 are external to the codec.  They *)
(* are modelled as digests of their inputs: Fold is a checksum that weighs *)
(* every byte by its position and Gen expands a seed into n bytes, so that *)
(* a change of an input byte, of an input's length or of the order of the  *)
(* bytes changes the output.                                               *)
RECURSIVE FoldRange(_, _, _)
FoldRange(s, lo, hi) ==
  IF lo > hi THEN 0
  ELSE IF lo = hi THEN (s[lo] + 1) * (lo * lo * 31 + lo * 17 + 1)
  ELSE LET mid == (lo + hi) \div 2
       IN FoldRange(s, lo, mid) + FoldRange(s, mid + 1, hi)

Fold(s) == (FoldRange(s, 1, Len(s)) + Len(s) * 7919) % 65521

Gen(seed, lane, n) ==
  [i \in 1..n |-> (seed * (2 * lane + 1) * (2 * i + 1) + (seed \div 251) * i
                     + i * i * 7 + lane * 29) % 256]

\* milenage f2, f3, f4, f5 from K, OPc and RAND
F2345(k, opc, rand) ==
  LET seed == Fold(k \o opc \o rand)
  IN [RES |-> Gen(seed, 1, 8), CK |-> Gen(seed, 2, 16),
      IK |-> Gen(seed, 3, 16), AK |-> Gen(seed, 4, 6)]

\* milenage f1 from K, OPc, RAND, SQN and AMF: the network MAC (MAC-A)
F1(k, opc, rand, sqn, amf) ==
  Gen(Fold(k \o opc \o rand \o sqn \o PutUint16(amf)), 5, 8)

\* hmac.New(sha256.New, key); Write(msg); Sum(nil): 32 bytes
HmacSha256(key, msg) == Gen(Fold(key) * 3 + Fold(msg), 6, 32)


\* ------------------------------------------------------------ RES* (A.4)
RECURSIVE Digits(_)
\* the decimal digits of n >= 0, as ASCII codes
Digits(n) == IF n < 10 THEN <<48 + n>> ELSE Digits(n \div 10) \o <<48 + (n % 10)>>

\* fmt.Sprintf("%03d", n) for n >= 0
Sprintf03d(n) ==
  LET d == Digits(n)
  IN IF Len(d) >= 3 THEN d ELSE [i \in 1..(3 - Len(d)) |-> 48] \o d

\* fmt.Sprintf("5G:mnc%03d.mcc%03d.3gppnetwork.org", mnc, mcc)
P0str(mcc, mnc) ==
  <<53, 71, 58, 109, 110, 99>> \o Sprintf03d(mnc)
    \o <<46, 109, 99, 99>> \o Sprintf03d(mcc)
    \o <<46, 51, 103, 112, 112, 110, 101, 116, 119, 111, 114, 107, 46, 111, 114, 103>>

\* the backing array of s, which extends behind s by spare, once
\* append(s, t...) has run: t is written behind s when it fits the capacity
AppendBacking(s, spare, t) ==
  IF Len(t) <= Len(spare)
  THEN s \o t \o SubSeq(spare, Len(t) + 1, Len(spare))
  ELSE s \o spare

\* ComputeRESstar with the first 16 bytes of the KDF output taken
ComputeRESstarFirst16(mcc, mnc, rand, res, ck, ik) ==
  LET fc == <<107>>
      p0 == P0str(mcc, mnc)
      l0 == PutUint16(Len(p0))
      l1 == PutUint16(Len(rand))
      l2 == PutUint16(Len(res))
      s == fc \o p0 \o l0 \o rand \o l1 \o res \o l2
      k == ck \o ik
      resstar == HmacSha256(k, s)
  IN SubSeq(resstar, 1, 16)

ComputeRESstar(mcc, mnc, rand, res, ck, ik) ==
  LET fc == <<107>>
      p0 == P0str(mcc, mnc)
      l0 == PutUint16(Len(p0))
      l1 == PutUint16(Len(rand))
      l2 == PutUint16(Len(res))
      s == fc \o p0 \o l0 \o rand \o l1 \o res \o l2
      k == ck \o ik
      resstar == HmacSha256(k, s)
      n == Len(resstar)
  IN SubSeq(resstar, n - 16 + 1, n)

\* ------------------------------------------------------------ UE profile
\* hex.DecodeString of an even-length string of hex digits (given as the
\* digits' values)
HexDecodeString(d) == [i \in 1..(Len(d) \div 2) |-> 16 * d[2 * i - 1] + d[2 * i]]

\* AuthParam.K and AuthParam.OPc of the UE profile: 32 hex digits each
ProfileK == [i \in 1..32 |-> (i * 5) % 16]
ProfileOPc == [i \in 1..32 |-> (i * 3 + 1) % 16]
\* hex.DecodeString(ue.AuthParam.K), hex.DecodeString(ue.AuthParam.OPc)
ProfileKBytes == HexDecodeString(ProfileK)
ProfileOPcBytes == HexDecodeString(ProfileOPc)

\* ------------------------------------------------------------ slices
(* The working context of one Decode call.  buf is the backing array of    *)
(* *pdu, [off, off+len) the cursor; ap holds the AuthParam slices as they  *)
(* were before the call and ref the slices assigned during it, each as     *)
(* <<offset, length>> into buf (<<>>: not assigned).  panic is 0 or the    *)
(* source line whose bounds check failed.  hi is the end of the highest    *)
(* byte of buf that was read.  The other fields record what the call did:  *)
(* entryFlags the value of securityHeaderParsed at each entry of Decode,   *)
(* strips the wrappers removed, hdr the bytes consumed once the message    *)
(* type was read (0: not read), ies one record per iteration of the IE     *)
(* loop (the normalised identifier, the offset of its tag, the cursor      *)
(* after its decoder and that decoder's panic), auth the outcome of the    *)
(* MAC check and kdf the number of calls of ComputeRESstar.                *)
NoRef == [rand |-> <<>>, autn |-> <<>>, seqxorak |-> <<>>, amf |-> <<>>, mac |-> <<>>]

Cap(c) == Len(c.buf) - c.off
At(c, i) == c.buf[c.off + i + 1]
Max(a, b) == IF a > b THEN a ELSE b
Panic(c, line) == [c EXCEPT !.panic = line]
\* the first k bytes of the cursor are read
Read(c, k) == [c EXCEPT !.hi = Max(@, c.off + k)]
\* *pdu = (*pdu)[k:], with k <= len
Advance(c, k) == [c EXCEPT !.off = @ + k, !.len = @ - k]
\* the bytes a slice <<offset, length>> of buf holds
Bytes(c, r) == SubSeq(c.buf, r[1] + 1, r[1] + r[2])
\* the bytes of the cursor
Rest(c) == Bytes(c, <<c.off, c.len>>)
\* the value of an AuthParam slice: assigned in this call, or as before
Field(c, f) == IF c.ref[f] = <<>> THEN c.ap[f] ELSE Bytes(c, c.ref[f])

\* ------------------------------------------------------------ IE decoders
\* 9.11.3.32 NAS key set identifier
decngKSI(c) ==
  IF c.panic # 0 THEN c
  ELSE IF c.len < 1 THEN Panic(c, 518)
  ELSE Advance(Read(c, 1), 1)

\* 9.11.3.10 ABBA
decABBA(c) ==
  IF c.panic # 0 THEN c
  ELSE IF c.len < 1 THEN Panic(c, 428)
  ELSE LET length == At(c, 0)
           c1 == Advance(Read(c, 1), 1)
       IN IF length > Cap(c1) THEN Panic(c1, 431)
          ELSE IF length > c1.len THEN Panic(c1, 432)
          ELSE Advance(Read(c1, length), length)

\* decAuthParamAUTN with the MAC taken before the AMF: mac = autn[6:14],
\* amf = autn[14:16]
decAuthParamAUTNMacFirst(c) ==
  IF c.panic # 0 THEN c
  ELSE IF c.len < 1 THEN Panic(c, 456)
  ELSE LET autnlen == At(c, 0)
           c1 == Advance(Read(c, 1), 1)
           o == c1.off
           c2 == [c1 EXCEPT !.ref.autn = <<o, autnlen>>]
           c3 == Advance(Read(c2, autnlen), autnlen)
           c4 == [c3 EXCEPT !.ref.seqxorak = <<o, 6>>]
           c5 == [c4 EXCEPT !.ref.amf = <<o + 14, 2>>]
           c6 == [c5 EXCEPT !.ref.mac = <<o + 6, 8>>]
       IN IF autnlen > Cap(c1) THEN Panic(c1, 459)
          ELSE IF autnlen > c1.len THEN Panic(c2, 460)
          ELSE IF 6 > Cap(c1) THEN Panic(c3, 462)
          ELSE IF 16 > Cap(c1) THEN Panic(c4, 463)
          ELSE IF 14 > Cap(c1) THEN Panic(c5, 464)
          ELSE [c6 EXCEPT !.hi = Max(@, o + 16)]

\* 9.11.3.15 Authentication parameter AUTN
decAuthParamAUTN(c) ==
  IF c.panic # 0 THEN c
  ELSE IF c.len < 1 THEN Panic(c, 456)
  ELSE LET autnlen == At(c, 0)
           c1 == Advance(Read(c, 1), 1)
           o == c1.off
           c2 == [c1 EXCEPT !.ref.autn = <<o, autnlen>>]
           c3 == Advance(Read(c2, autnlen), autnlen)
           c4 == [c3 EXCEPT !.ref.seqxorak = <<o, 6>>]
           c5 == [c4 EXCEPT !.ref.amf = <<o + 6, 2>>]
           c6 == [c5 EXCEPT !.ref.mac = <<o + 8, 8>>]
       IN IF autnlen > Cap(c1) THEN Panic(c1, 459)
          ELSE IF autnlen > c1.len THEN Panic(c2, 460)
          ELSE IF 6 > Cap(c1) THEN Panic(c3, 462)
          ELSE IF 8 > Cap(c1) THEN Panic(c4, 463)
          ELSE IF 16 > Cap(c1) THEN Panic(c5, 464)
          ELSE [c6 EXCEPT !.hi = Max(@, o + 16)]

\* 9.11.3.16 Authentication parameter RAND
decAuthParamRAND(c) ==
  IF c.panic # 0 THEN c
  ELSE LET c1 == [c EXCEPT !.ref.rand = <<c.off, randlen>>]
       IN IF randlen > Cap(c) THEN Panic(c, 477)
          ELSE IF randlen > c.len THEN Panic(c1, 478)
          ELSE Advance(Read(c1, randlen), randlen)

\* 9.11.3.28 IMEISV request
decIMEISVRequest(c) ==
  IF c.panic # 0 THEN c
  ELSE IF c.len < 1 THEN Panic(c, 504)
  ELSE Advance(Read(c, 1), 1)

\* 9.11.3.34 NAS security algorithms
decNASSecurityAlgorithms(c) ==
  IF c.panic # 0 THEN c
  ELSE IF 1 > Cap(c) THEN Panic(c, 529)
  ELSE IF 1 > c.len THEN Panic(Read(c, 1), 531)
  ELSE Advance(Read(c, 1), 1)

\* 9.11.3.54 UE security capability (replayed)
decUESecurityCapability(c) ==
  IF c.panic # 0 THEN c
  ELSE IF c.len < 1 THEN Panic(c, 569)
  ELSE LET length == At(c, 0)
           c1 == Advance(Read(c, 1), 1)
       IN IF length > Cap(c1) THEN Panic(c1, 572)
          ELSE IF length > c1.len THEN Panic(Read(c1, length), 574)
          ELSE Advance(Read(c1, length), length)


\* ------------------------------------------------------------ IE parser
\* (*pdu)[0] &= 0x0f: the compact tag's byte is overwritten in place
MaskTag(c) == [c EXCEPT !.buf[c.off + 1] = BitAnd(At(c, 0), 15)]

\* *pdu = []byte{}
Discard(c) == [c EXCEPT !.off = Len(c.buf), !.len = 0]

\* IEDispatch with the tag of the Additional 5G Security Information IE put
\* back on the cursor
IEDispatchUnreadTag(c, iei) ==
  CASE iei = ieiIMEISVRequest -> decIMEISVRequest(c)
    [] iei = ieiAuthParamAUTN -> decAuthParamAUTN(c)
    [] iei = ieiAuthParamRAND -> decAuthParamRAND(c)
    [] iei = ieiAdditional5GSecurityInformation -> Advance(c, 0 - 1)
    [] OTHER -> Discard(c)

\* the switch of decInformationElement on the normalised identifier
IEDispatch(c, iei) ==
  CASE iei = ieiIMEISVRequest -> decIMEISVRequest(c)
    [] iei = ieiAuthParamAUTN -> decAuthParamAUTN(c)
    [] iei = ieiAuthParamRAND -> decAuthParamRAND(c)
    [] iei = ieiAdditional5GSecurityInformation -> c
    [] OTHER -> Discard(c)

\* the identifier of the IE at the cursor: the high nibble of a compact tag
\* (top bit set), else the byte; 0xff when ieStr has no name for it
IETag(c) ==
  LET b == At(c, 0)
      iei0 == IF BitAnd(b, 128) = 128 THEN b \div 16 ELSE b
  IN IF iei0 \in ieStr THEN iei0 ELSE ieiNonSupported

\* the body of the for loop of decInformationElement (lines 179-205), on a
\* cursor that is not empty
IEBody(c) ==
  LET compact == BitAnd(At(c, 0), 128) = 128
      c1 == IF compact THEN MaskTag(Read(c, 1)) ELSE Advance(Read(c, 1), 1)
  IN IEDispatch(c1, IETag(c))

RECURSIVE decInformationElement(_)
decInformationElement(c) ==
  IF c.panic # 0 \/ c.len <= 0 THEN c
  ELSE LET d == IEBody(c)
       IN decInformationElement(
            [d EXCEPT !.ies = Append(@, [iei |-> IETag(c), at |-> c.off,
                                         end |-> d.off, panic |-> d.panic])])

\* ------------------------------------------------------------ AKA
\* m.SQN after NewWithOPc(.., 0, ..) and the loop over seqxorak
RecoverSQN(seqxorak, ak) ==
  [n \in 1..6 |-> IF n <= Len(seqxorak) THEN BitXor(seqxorak[n], ak[n]) ELSE 0]

\* MacEqual with only the lengths compared
MacEqualLengths(mac, maca) == Len(mac) = Len(maca)

\* reflect.DeepEqual(ue.AuthParam.mac, m.MACA)
MacEqual(mac, maca) == mac = maca

\* lines 220-256 of decAuthenticationRequest: the Milenage run, the MAC
\* check and the derivation of RES*
VerifyAndDerive(c) ==
  LET k == ProfileKBytes
      opc == ProfileOPcBytes
      amfb == Field(c, "amf")
      rand == Field(c, "rand")
      m == F2345(k, opc, rand)
      sqn == RecoverSQN(Field(c, "seqxorak"), m.AK)
      maca == F1(k, opc, rand, sqn, Uint16(amfb))
      c1 == [c EXCEPT !.SQN = sqn, !.AK = m.AK, !.MACA = maca]
  IN IF c.panic # 0 THEN c
     ELSE IF Len(amfb) < 2 THEN Panic(c, 222)
     ELSE IF Len(rand) < 16 THEN Panic(c, 225)
     ELSE IF MacEqual(Field(c, "mac"), maca) = FALSE
          THEN [c1 EXCEPT !.auth = "mismatch"]
     ELSE [c1 EXCEPT !.auth = "match", !.kdf = @ + 1,
                     !.RESstar = ComputeRESstar(c.MCC, c.MNC, rand,
                                                m.RES, m.CK, m.IK)]

\* 8.2.1 Authentication request
decAuthenticationRequest(c) ==
  VerifyAndDerive(decInformationElement(decABBA(decngKSI(c))))

\* 8.2.25 Security mode command
decSecurityModeCommand(c) ==
  decInformationElement(
    decUESecurityCapability(decngKSI(decNASSecurityAlgorithms(c))))

\* ------------------------------------------------------------ Decode
\* ResetFlag with the assignment left out
ResetFlagMissing(c) == c

\* ue.state.securityHeaderParsed = false (line 172)
ResetFlag(c) == IF c.panic # 0 THEN c ELSE [c EXCEPT !.flag = FALSE]

\* StripWrapper with securityHeaderParsed left as it is
StripWrapperFlagUnset(c) ==
  IF Cap(c) < 4 THEN Panic(c, 139)
  ELSE IF c.len <= 4 THEN Panic(c, 140)
  ELSE [Advance(Read(c, 5), 5) EXCEPT !.length = @ - 5, !.strips = @ + 1]

\* lines 139-145: the MAC and the sequence number of the security wrapper
StripWrapper(c) ==
  IF Cap(c) < 4 THEN Panic(c, 139)
  ELSE IF c.len <= 4 THEN Panic(c, 140)
  ELSE [Advance(Read(c, 5), 5) EXCEPT !.length = @ - 5, !.flag = TRUE,
                                      !.strips = @ + 1]

\* MsgDispatch with the IE parser run on the body of every other message
MsgDispatchParseAll(c, msgType) ==
  CASE msgType = MessageTypeAuthenticationRequest -> decAuthenticationRequest(c)
    [] msgType = MessageTypeSecurityModeCommand -> decSecurityModeCommand(c)
    [] OTHER -> decInformationElement(c)

\* the switch of Decode on the message type
MsgDispatch(c, msgType) ==
  CASE msgType = MessageTypeAuthenticationRequest -> decAuthenticationRequest(c)
    [] msgType = MessageTypeSecurityModeCommand -> decSecurityModeCommand(c)
    [] OTHER -> c

\* one header byte: x := int((*pdu)[0]); *pdu = (*pdu)[1:]; length--
HeaderByte(c) == [Advance(Read(c, 1), 1) EXCEPT !.length = @ - 1]

RECURSIVE Decode(_)
Decode(c0) ==
  LET c == [c0 EXCEPT !.entryFlags = Append(@, c0.flag)]
      c1 == HeaderByte(c)
      secHeader == At(c1, 0)
      c2 == HeaderByte(c1)
      s == StripWrapper(c2)
      msgType == At(c2, 0)
      c3 == [Advance(Read(c2, 1), 1) EXCEPT !.msgType = msgType,
                                            !.hdr = c2.off + 1]
  IN IF c.len < 1 THEN Panic(c, 128)
     ELSE IF c1.len < 1 THEN Panic(c1, 133)
     ELSE IF secHeader # 0 /\ c2.flag = FALSE
          THEN IF s.panic # 0 THEN s ELSE Decode(s)
     ELSE IF c2.len < 1 THEN Panic(c2, 155)
     ELSE ResetFlag(MsgDispatch(c3, msgType))


\* the context Decode starts from: the received bytes b in a backing array
\* that extends by spare, and the UE context as it is before the call
StartCtx(p, ap, flag, mcc, mnc) ==
  [buf |-> p.b \o p.spare, off |-> 0, len |-> Len(p.b), length |-> Len(p.b),
   panic |-> 0,
   ap |-> [rand |-> ap.rand, autn |-> ap.autn, seqxorak |-> ap.seqxorak,
           amf |-> ap.amf, mac |-> ap.mac],
   ref |-> NoRef, RESstar |-> ap.RESstar, flag |-> flag, MCC |-> mcc,
   MNC |-> mnc, hi |-> 0, entryFlags |-> <<>>, strips |-> 0, msgType |-> 0,
   hdr |-> 0, ies |-> <<>>, auth |-> "none", kdf |-> 0, SQN |-> <<>>,
   AK |-> <<>>, MACA |-> <<>>]

\* ue.AuthParam once the call has ended (returned or panicked)
AuthParamAfter(c) ==
  [rand |-> Field(c, "rand"), autn |-> Field(c, "autn"),
   seqxorak |-> Field(c, "seqxorak"), amf |-> Field(c, "amf"),
   mac |-> Field(c, "mac"), RESstar |-> c.RESstar]

\* ------------------------------------------------------------ encoders
\* encAuthParamRes with the length of the RESstar slice as the length octet
encAuthParamResSliceLen(ap) ==
  [iei |-> ieiAuthParamRES,
   resstar |-> [i \in 1..16 |-> IF i <= Len(ap.RESstar) THEN ap.RESstar[i] ELSE 0],
   length |-> Len(ap.RESstar)]

\* 9.11.3.17 Authentication response parameter
encAuthParamRes(ap) ==
  [iei |-> ieiAuthParamRES,
   resstar |-> [i \in 1..16 |-> IF i <= Len(ap.RESstar) THEN ap.RESstar[i] ELSE 0],
   length |-> 16]

\* binary.Write(data, binary.BigEndian, h) of a NasMessageMM
WriteNasMessageMM(h) ==
  <<h.ExtendedProtocolDiscriminator, h.SecurityHeaderType, h.MessageType>>

\* binary.Write(data, binary.BigEndian, res) of an AuthParamRes
WriteAuthParamRes(res) == <<res.iei, res.length>> \o res.resstar

\* 8.2.2 Authentication response
MakeAuthenticationResponse(ap) ==
  LET h == [ExtendedProtocolDiscriminator |-> EPD5GSMobilityManagement,
            SecurityHeaderType |-> SecurityHeaderTypePlain,
            MessageType |-> MessageTypeAuthenticationResponse]
  IN WriteNasMessageMM(h) \o WriteAuthParamRes(encAuthParamRes(ap))

\* ------------------------------------------------------------ BCD, 8.2.6
\* n, _ := strconv.ParseUint(string(v), 16, 8) for a byte v: the value of
\* the hex digit v, in either case of the letters, and 0 with the error
\* dropped for every other byte
ParseUint16(v) ==
  IF v \in 48..57 THEN v - 48
  ELSE IF v \in 97..102 THEN v - 87
  ELSE IF v \in 65..70 THEN v - 55
  ELSE 0

\* Str2BCD with the first digit of a pair in the high nibble
Str2BCDHighFirst(str) ==
  LET bcdlen == (Len(str) \div 2) + (IF Len(str) % 2 = 1 THEN 1 ELSE 0)
  IN [j \in 1..bcdlen |->
        IF 2 * j <= Len(str)
        THEN BitOr((ParseUint16(str[2 * j - 1]) * 16) % 256,
                   ParseUint16(str[2 * j]))
        ELSE ParseUint16(str[2 * j - 1])]

\* Str2BCD: bcd[i/2] = n for an even index i of the string, and
\* bcd[i/2] |= n << 4 for an odd one
Str2BCD(str) ==
  LET bcdlen == (Len(str) \div 2) + (IF Len(str) % 2 = 1 THEN 1 ELSE 0)
  IN [j \in 1..bcdlen |->
        IF 2 * j <= Len(str)
        THEN BitOr(ParseUint16(str[2 * j - 1]),
                   (ParseUint16(str[2 * j]) * 16) % 256)
        ELSE ParseUint16(str[2 * j - 1])]

\* fmt.Sprintf("%d", n)
SprintfD(n) == IF n < 0 THEN <<45>> \o Digits(0 - n) ELSE Digits(n)

\* for i, v := range bcd { a[i] = v } on a zeroed array a of n bytes; the
\* assignment at the given line panics when i reaches n
FillArray(n, bcd, line) ==
  [panic |-> IF Len(bcd) > n THEN line ELSE 0,
   a |-> [i \in 1..n |-> IF i <= Len(bcd) THEN bcd[i] ELSE 0]]

encPLMN(mcc, mnc) ==
  LET str == IF mnc < 100 THEN SprintfD(mcc) \o <<102>> \o SprintfD(mnc)
             ELSE SprintfD(mcc) \o SprintfD(mnc)
  IN FillArray(3, Str2BCD(str), 345)

encRoutingIndicator(ind) == FillArray(2, Str2BCD(SprintfD(ind)), 353)

encProtectionScheme(prof) == IF prof = "null" THEN ProtectionSchemeNull ELSE 0

encSchemeOutput(msin) == FillArray(5, Str2BCD(msin), 368)

\* 9.11.3.1 5GMM capability
enc5GMMCapability ==
  [iei |-> iei5GMMCapability, length |-> 1, capability1 |-> FiveGMMCapN3data]

encUESecurityCapability ==
  [iei |-> ieiUESecurityCapability, length |-> 4, ea |-> EA0,
   ia |-> BitOr(IA0, IA2), eea |-> 0, eia |-> 0]

\* binary.Write(data, binary.BigEndian, f) of a FiveGSMobileID
WriteFiveGSMobileID(f) ==
  PutUint16(f.length) \o <<f.supiFormatAndTypeID>> \o f.plmn
    \o f.routingIndicator \o <<f.protectionScheme, f.homeNetworkPublicKeyID>>
    \o f.schemeOutput

\* binary.Write(data, binary.BigEndian, req) of a RegistrationRequest
WriteRegistrationRequest(req) ==
  WriteNasMessageMM(req.head) \o <<req.registrationTypeAndngKSI>>
    \o WriteFiveGSMobileID(req.fiveGSMobileID)

Write5GMMCapability(f) == <<f.iei, f.length, f.capability1>>

WriteUESecurityCapability(sc) == <<sc.iei, sc.length, sc.ea, sc.ia, sc.eea, sc.eia>>

\* 8.2.6 Registration request, for the profile p: the PDU, or the line of
\* the assignment that panicked
MakeRegistrationRequest(p) ==
  LET h == [ExtendedProtocolDiscriminator |-> EPD5GSMobilityManagement,
            SecurityHeaderType |-> SecurityHeaderTypePlain,
            MessageType |-> MessageTypeRegistrationRequest]
      regType == BitOr(RegistrationTypeInitialRegistration,
                       RegistrationTypeFlagFollowOnRequestPending)
      ngKSI == KeySetIdentityNoKeyIsAvailable
      plmn == encPLMN(p.MCC, p.MNC)
      ri == encRoutingIndicator(p.RoutingIndicator)
      so == encSchemeOutput(p.MSIN)
      f == [length |-> 13,
            supiFormatAndTypeID |-> BitOr(TypeIDSUCI, (SUPIFormatIMSI * 16) % 256),
            plmn |-> plmn.a, routingIndicator |-> ri.a,
            protectionScheme |-> encProtectionScheme(p.ProtectionScheme),
            homeNetworkPublicKeyID |-> 0, schemeOutput |-> so.a]
      req == [head |-> h,
              registrationTypeAndngKSI |-> BitOr(regType, (ngKSI * 16) % 256),
              fiveGSMobileID |-> f]
  IN IF plmn.panic # 0 THEN [panic |-> plmn.panic, pdu |-> <<>>]
     ELSE IF ri.panic # 0 THEN [panic |-> ri.panic, pdu |-> <<>>]
     ELSE IF so.panic # 0 THEN [panic |-> so.panic, pdu |-> <<>>]
     ELSE [panic |-> 0,
           pdu |-> WriteRegistrationRequest(req)
                     \o Write5GMMCapability(enc5GMMCapability)
                     \o WriteUESecurityCapability(encUESecurityCapability)]

\* ------------------------------------------------------------ inputs
(* The PDUs handed to Decode.  The network side of the AKA run builds AUTN *)
(* from RAND, SQN and AMF with the same K and OPc as the UE profile.       *)
RAND1 == [i \in 1..16 |-> 16 + i]
RAND2 == [i \in 1..16 |-> 160 + 3 * i]

NetAUTN(rand, sqn, amf) ==
  LET k == ProfileKBytes
      opc == ProfileOPcBytes
      ak == F2345(k, opc, rand).AK
  IN [i \in 1..6 |-> BitXor(sqn[i], ak[i])] \o amf
       \o F1(k, opc, rand, sqn, Uint16(amf))

GoodAUTN1 == NetAUTN(RAND1, <<0, 0, 0, 0, 1, 35>>, <<128, 0>>)
\* 00112233445566778899AABBCCDDEEFF
ExampleAUTN == [i \in 1..16 |-> 17 * (i - 1)]

IERand(r) == <<ieiAuthParamRAND>> \o r
IEAutn(a) == <<ieiAuthParamAUTN, Len(a)>> \o a

\* the information elements a generated body is made of
IEs ==
  << IERand(RAND1), IERand(RAND2), IEAutn(GoodAUTN1), IEAutn(ExampleAUTN),
     IEAutn(<<1, 2, 3, 4>>), <<225>>,
     <<ieiAdditional5GSecurityInformation, 1, 0>>,
     <<ieiUESecurityCapability, 4, 128, 160, 0, 0>>,
     <<120, 0, 9, 201, 202, 203, 204, 205, 206, 207, 208, 209>> >>

RECURSIVE Flatten(_)
Flatten(l) == IF l = <<>> THEN <<>> ELSE IEs[Head(l)] \o Flatten(Tail(l))

IELists(n) == UNION {[1..m -> 1..Len(IEs)] : m \in 0..n}

AuthBody(l) == <<MessageTypeAuthenticationRequest, 0, 2, 0, 0>> \o Flatten(l)
SMCBody(l) ==
  <<MessageTypeSecurityModeCommand, 0, 0, 4, 128, 160, 0, 0>> \o Flatten(l)
OtherBody(t) == <<t, 121, 0, 13>>

PlainHdr == <<EPD5GSMobilityManagement, 0>>
\* integrity protected: MAC 4 bytes, sequence number, then the inner header
WrapHdr(inner) == <<EPD5GSMobilityManagement, 2, 9, 8, 7, 6, 5,
                    EPD5GSMobilityManagement, inner>>
Hdrs == {PlainHdr, WrapHdr(0), WrapHdr(1)}

Junk(n) == [i \in 1..n |-> (i * 37 + 3) % 256]

Prefixes(s) == {SubSeq(s, 1, n) : n \in 0..Len(s)}

\* PDUs cut short, in a buffer of exactly their length
TruncatedPDUs ==
  Prefixes(WrapHdr(0) \o AuthBody(<<1, 3>>))
    \cup Prefixes(PlainHdr \o SMCBody(<<6>>))

\* PDUs, whole or cut short, received into a larger buffer
SparePDUs ==
  {SubSeq(WrapHdr(0) \o AuthBody(<<1, 3>>), 1, n) : n \in {3, 7, 9, 12, 20, 35}}
    \cup {SubSeq(PlainHdr \o SMCBody(<<6>>), 1, n) : n \in {3, 5}}
    \cup {PlainHdr \o AuthBody(<<5>>), PlainHdr \o AuthBody(<<1, 3>>)}

Buffers(full) ==
  {[b |-> b, spare |-> <<>>] : b \in full \cup TruncatedPDUs}
    \cup {[b |-> b, spare |-> Junk(SpareCap)] : b \in SparePDUs}

\* the bodies that follow each of the headers
Bodies ==
  {AuthBody(l) : l \in {<<>>, <<1, 3>>, <<1, 4>>}}
    \cup {SMCBody(l) : l \in {<<>>, <<6, 1>>}}
    \cup {OtherBody(t) : t \in {MessageTypeRegistrationRequest,
                                MessageTypeAuthenticationResponse}}

\* the IE lists of the Authentication Requests decoded in sequences of calls
ChallengeLists ==
  {<<1>>, <<3>>, <<4>>, <<2, 3>>, <<3, 1>>, <<5, 1>>, <<1, 8, 3>>, <<1, 9, 4>>,
   <<6, 1, 3>>, <<7>>}

\* the PDUs of the sequences of calls
Inputs ==
  Buffers({PlainHdr \o AuthBody(l) : l \in ChallengeLists}
            \cup {h \o b : h \in Hdrs, b \in Bodies})

\* the PDUs of a single call: every IE list of at most MaxIEs elements
ParseInputs ==
  Buffers({PlainHdr \o AuthBody(l) : l \in IELists(MaxIEs)}
            \cup {PlainHdr \o SMCBody(l) : l \in IELists(MaxIEs - 1)}
            \cup {h \o b : h \in Hdrs, b \in Bodies})

\* ------------------------------------------------------------ state
(* The UE context is MCC, MNC, AuthParam and securityHeaderParsed.  pc is  *)
(* "idle" between calls and "returned" when a call has ended; ret then     *)
(* holds what the call did and pre, the context it started from.           *)
(* lastAuth is the outcome of the most recent Authentication Request       *)
(* ("match", "mismatch", "panic"), lastDecode that of the most recent      *)
(* Decode ("returned", "panic"), calls the number of Decode calls made.    *)
(* MSIN, RoutingIndicator and ProtectionScheme are the other fields of the *)
(* profile; for a call of a function that is not a method of UE, ret.args  *)
(* holds its arguments.                                                    *)
NoRet ==
  [op |-> "none", pdu |-> <<>>, cap |-> 0, panic |-> 0, msgType |-> 0,
   rest |-> <<>>, hi |-> 0, entryFlags |-> <<>>, strips |-> 0, hdr |-> 0,
   ies |-> <<>>, auth |-> "none", kdf |-> 0, SQN |-> <<>>, AK |-> <<>>,
   MACA |-> <<>>, ref |-> NoRef, out |-> <<>>, args |-> <<>>,
   pre |-> [AuthParam |-> <<>>, securityHeaderParsed |-> FALSE,
            lastAuth |-> "none", lastDecode |-> "none"]]

Pre == [AuthParam |-> AuthParam, securityHeaderParsed |-> securityHeaderParsed,
        lastAuth |-> lastAuth, lastDecode |-> lastDecode]

\* the UE profiles NewNAS loads for the decoder runs (MSIN "0000000001")
Profiles ==
  {[MCC |-> 208, MNC |-> 93, MSIN |-> <<48, 48, 48, 48, 48, 48, 48, 48, 48, 49>>,
    RoutingIndicator |-> 0, ProtectionScheme |-> "null"]}

\* the UE context of a freshly loaded profile
Loaded(prof) ==
  /\ MSIN = prof.MSIN
  /\ MCC = prof.MCC
  /\ MNC = prof.MNC
  /\ RoutingIndicator = prof.RoutingIndicator
  /\ ProtectionScheme = prof.ProtectionScheme
  /\ AuthParam = [rand |-> <<>>, autn |-> <<>>, seqxorak |-> <<>>,
                  amf |-> <<>>, mac |-> <<>>, RESstar |-> <<>>]
  /\ securityHeaderParsed = FALSE
  /\ lastAuth = "none"
  /\ lastDecode = "none"
  /\ calls = 0
  /\ pc = "idle"
  /\ ret = NoRet

\* the fields of the profile, which no call changes
profile == <<MSIN, MCC, MNC, RoutingIndicator, ProtectionScheme>>

\* NewNAS: the profile is loaded, nothing has been decoded
Init == \E prof \in Profiles : Loaded(prof)

\* a call of ue.Decode(&pdu, len(pdu)), to its return or its panic
DecodeCall(inputs, maxCalls) ==
  /\ pc = "idle"
  /\ calls < maxCalls
  /\ \E p \in inputs :
       LET r == Decode(StartCtx(p, AuthParam, securityHeaderParsed, MCC, MNC))
           isAuth == r.hdr > 0 /\ r.msgType = MessageTypeAuthenticationRequest
       IN /\ AuthParam' = AuthParamAfter(r)
          /\ securityHeaderParsed' = r.flag
          /\ lastAuth' = IF ~isAuth THEN lastAuth
                         ELSE IF r.panic # 0 THEN "panic" ELSE r.auth
          /\ lastDecode' = IF r.panic # 0 THEN "panic" ELSE "returned"
          /\ ret' = [NoRet EXCEPT !.op = "Decode", !.pdu = p.b,
                       !.cap = Len(p.b) + Len(p.spare), !.panic = r.panic,
                       !.msgType = r.msgType, !.rest = Rest(r), !.hi = r.hi,
                       !.entryFlags = r.entryFlags, !.strips = r.strips,
                       !.hdr = r.hdr, !.ies = r.ies, !.auth = r.auth,
                       !.kdf = r.kdf, !.SQN = r.SQN, !.AK = r.AK,
                       !.MACA = r.MACA, !.ref = r.ref, !.pre = Pre]
  /\ calls' = calls + 1
  /\ pc' = "returned"
  /\ UNCHANGED profile

UEDecode == DecodeCall(Inputs, MaxCalls)

\* a call of ue.MakeAuthenticationResponse()
UEMakeAuthenticationResponse ==
  /\ pc = "idle"
  /\ ret' = [NoRet EXCEPT !.op = "MakeAuthenticationResponse",
               !.out = MakeAuthenticationResponse(AuthParam), !.pre = Pre]
  /\ pc' = "returned"
  /\ UNCHANGED <<profile, AuthParam, securityHeaderParsed, lastAuth,
                 lastDecode, calls>>

\* the caller has taken the result of the call
Return ==
  /\ pc = "returned"
  /\ pc' = "idle"
  /\ ret' = NoRet
  /\ UNCHANGED <<profile, AuthParam, securityHeaderParsed, lastAuth,
                 lastDecode, calls>>

\* sequences of calls on one UE context
Next == UEDecode \/ UEMakeAuthenticationResponse \/ Return

Spec == Init /\ [][Next]_vars

\* one Decode call on a fresh UE context, over every generated IE list
UEDecodeOnce == DecodeCall(ParseInputs, 1)

NextParse == UEDecodeOnce \/ UEMakeAuthenticationResponse \/ Return

SpecParse == Init /\ [][NextParse]_vars

\* ------------------------------------------------------------ IE loop
(* decInformationElement run one iteration of its for loop at a time: pc   *)
(* is "loop" while the call is in the loop and ret.args is its working     *)
(* context, the cursor *pdu included.                                      *)
\* the IE blocks handed to decInformationElement: every tag byte, alone,
\* before 17 other bytes and before an IE, and every list of IEs
LoopBlocks ==
  {<<tag>> \o tail : tag \in 0..255,
                     tail \in {<<>>, <<16>> \o RAND2, IEs[7] \o IEs[6]}}
    \cup {Flatten(l) : l \in IELists(MaxIEs - 1)}

LoopInputs ==
  {[b |-> b, spare |-> <<>>] : b \in LoopBlocks}
    \cup {[b |-> <<tag>>, spare |-> Junk(SpareCap)] : tag \in 0..255}

\* a call of ue.decInformationElement(&pdu) reaches the for statement
decInformationElementCall ==
  /\ pc = "idle"
  /\ calls < 1
  /\ \E p \in LoopInputs :
       ret' = [NoRet EXCEPT !.op = "decInformationElement", !.pdu = p.b,
                 !.cap = Len(p.b) + Len(p.spare), !.pre = Pre,
                 !.args = StartCtx(p, AuthParam, securityHeaderParsed, MCC, MNC)]
  /\ calls' = calls + 1
  /\ pc' = "loop"
  /\ UNCHANGED <<profile, AuthParam, securityHeaderParsed, lastAuth, lastDecode>>

\* one iteration: len(*pdu) > 0 holds and the body runs
IELoopStep ==
  /\ pc = "loop"
  /\ ret.args.panic = 0
  /\ ret.args.len > 0
  /\ ret' = [ret EXCEPT !.args = IEBody(ret.args)]
  /\ UNCHANGED <<profile, AuthParam, securityHeaderParsed, lastAuth,
                 lastDecode, calls, pc>>

\* the call ends: the cursor is empty, or the body has panicked
IELoopExit ==
  /\ pc = "loop"
  /\ ret.args.panic # 0 \/ ret.args.len <= 0
  /\ AuthParam' = AuthParamAfter(ret.args)
  /\ ret' = [ret EXCEPT !.panic = ret.args.panic, !.rest = Rest(ret.args),
                        !.hi = ret.args.hi, !.ref = ret.args.ref]
  /\ pc' = "returned"
  /\ UNCHANGED <<profile, securityHeaderParsed, lastAuth, lastDecode, calls>>

NextLoop == decInformationElementCall \/ IELoopStep \/ IELoopExit \/ Return

\* a call that has started runs on: it takes its next step when it has one
SpecLoop ==
  Init /\ [][NextLoop]_vars /\ WF_vars(IELoopStep) /\ WF_vars(IELoopExit)

\* ------------------------------------------------------------ registration
\* the UE profiles NewNAS loads for the encoder runs: MSIN "0000000001",
\* "123456789" and ""
EncProfiles ==
  [MCC : {0, 1, 12, 208, 999}, MNC : {0, 1, 10, 93, 99, 100, 101, 999},
   MSIN : {<<48, 48, 48, 48, 48, 48, 48, 48, 48, 49>>,
           <<49, 50, 51, 52, 53, 54, 55, 56, 57>>, <<>>},
   RoutingIndicator : {0, 12, 1234, 9999, 10000, 65535},
   ProtectionScheme : {"null", "profileA"}]

InitEnc == \E prof \in EncProfiles : Loaded(prof)

\* a call of ue.MakeRegistrationRequest(), to its return or its panic
UEMakeRegistrationRequest ==
  /\ pc = "idle"
  /\ LET r == MakeRegistrationRequest(
                [MSIN |-> MSIN, MCC |-> MCC, MNC |-> MNC,
                 RoutingIndicator |-> RoutingIndicator,
                 ProtectionScheme |-> ProtectionScheme])
     IN ret' = [NoRet EXCEPT !.op = "MakeRegistrationRequest",
                  !.panic = r.panic, !.out = r.pdu, !.pre = Pre]
  /\ pc' = "returned"
  /\ UNCHANGED <<profile, AuthParam, securityHeaderParsed, lastAuth,
                 lastDecode, calls>>

NextEnc == UEMakeRegistrationRequest \/ Return

SpecEnc == InitEnc /\ [][NextEnc]_vars

\* ------------------------------------------------------------ functions
(* Calls of the functions of the package that are not methods of UE, on    *)
(* arguments of their own.                                                 *)
\* the arguments of the ComputeRESstar calls; ck lies in a backing array
\* that extends behind it by ckSpare
KdfArgs ==
  [mcc : {1, 20, 208, 999}, mnc : {1, 93, 100},
   rand : {<<>>, RAND1, RAND2}, res : {<<1, 2, 3, 4>>, [i \in 1..8 |-> 200 + i]},
   ck : {[i \in 1..16 |-> i], [i \in 1..16 |-> 255 - i]},
   ik : {[i \in 1..16 |-> 3 * i]}, ckSpare : {<<>>, Junk(32)}]

\* a call of ComputeRESstar(mcc, mnc, rand, res, ck, ik)
ComputeRESstarCall ==
  /\ pc = "idle"
  /\ \E a \in KdfArgs :
       ret' = [NoRet EXCEPT !.op = "ComputeRESstar", !.args = a,
                 !.out = [resstar |-> ComputeRESstar(a.mcc, a.mnc, a.rand,
                                                     a.res, a.ck, a.ik),
                          rand |-> a.rand, res |-> a.res, ik |-> a.ik,
                          ckArray |-> AppendBacking(a.ck, a.ckSpare, a.ik)]]
  /\ pc' = "returned"
  /\ UNCHANGED <<profile, AuthParam, securityHeaderParsed, lastAuth,
                 lastDecode, calls>>

\* the characters of the strings handed to Str2BCD: "0", "1", "9", "a",
\* "f" and "A"
DigitChars == {48, 49, 57, 97, 102, 65}

DigitStrings(n) == [1..n -> DigitChars]

\* a call of Str2BCD(str)
Str2BCDCall ==
  /\ pc = "idle"
  /\ \E n \in 0..MaxDigits : \E s \in DigitStrings(n) :
       ret' = [NoRet EXCEPT !.op = "Str2BCD", !.args = s, !.out = Str2BCD(s)]
  /\ pc' = "returned"
  /\ UNCHANGED <<profile, AuthParam, securityHeaderParsed, lastAuth,
                 lastDecode, calls>>

NextFn == ComputeRESstarCall \/ Str2BCDCall \/ Return

SpecFn == Init /\ [][NextFn]_vars


\* ------------------------------------------------------------ claims
\* MAC-A as f1 gives it for the stored RAND and AMF and for
\* SQN[i] = seqxorak[i] XOR AK[i], i in 0..5
ExpectedMACA(ap) ==
  LET ak == F2345(ProfileKBytes, ProfileOPcBytes, ap.rand).AK
      sqn == [i \in 1..6 |-> BitXor(ap.seqxorak[i], ak[i])]
  IN F1(ProfileKBytes, ProfileOPcBytes, ap.rand, sqn,
        ap.amf[1] * 256 + ap.amf[2])

\* C1: a Decode computes RES* (calls ComputeRESstar, writes
\* AuthParam.RESstar) only when the 8-byte MAC of AUTN equals the MAC-A that
\* f1 gives for SQN = (SEQ xor AK) xor AK; when the MACs differ no RES* is
\* computed and AuthParam.RESstar keeps the value it had before the call.
C1_RESstarOnlyOnMacMatch ==
  ret.op = "Decode" =>
    /\ (ret.kdf > 0 \/ AuthParam.RESstar # ret.pre.AuthParam.RESstar) =>
         /\ ret.kdf = 1
         /\ Len(AuthParam.seqxorak) = 6
         /\ Len(AuthParam.amf) = 2
         /\ Len(AuthParam.mac) = 8
         /\ AuthParam.mac = ExpectedMACA(AuthParam)
    /\ ret.auth = "mismatch" =>
         /\ ret.kdf = 0
         /\ AuthParam.RESstar = ret.pre.AuthParam.RESstar

\* C1 witness: the MACs differ and the RES* of an earlier challenge is kept.
C1_Witness ==
  /\ ret.op = "Decode"
  /\ ret.auth = "mismatch"
  /\ Len(AuthParam.mac) = 8
  /\ AuthParam.RESstar # <<>>
  /\ AuthParam.RESstar = ret.pre.AuthParam.RESstar

\* C2 (as claimed): when the most recent Authentication Request failed the
\* MAC check, MakeAuthenticationResponse returns no PDU that carries a RES*.
C2_NoResponseAfterMacFailure ==
  (ret.op = "MakeAuthenticationResponse" /\ lastAuth = "mismatch") =>
    ~ /\ Len(ret.out) >= 21
      /\ ret.out[4] = ieiAuthParamRES
      /\ SubSeq(ret.out, 6, 21) # Zeros(16)

\* C3 (as claimed): what Decode returns after a MAC mismatch differs from
\* what it returns after a successful authentication, which is a normal
\* return of the message type 0x56.
C3_MacMismatchReported ==
  (ret.op = "Decode" /\ ret.auth = "mismatch") =>
    ~(ret.panic = 0 /\ ret.msgType = MessageTypeAuthenticationRequest)

\* C4: a top-level Decode entered with securityHeaderParsed = FALSE on a PDU
\* whose security header byte is not 0 removes exactly the 5 wrapper bytes
\* after the 2 header bytes, runs the recursive call with the flag TRUE, and
\* that call takes the byte after its 2 header bytes as the message type
\* whatever the inner security header byte is; no call strips two wrappers.
C4_WrapperStrippedOnce ==
  ret.op = "Decode" =>
    /\ ret.strips <= 1
    /\ (ret.pre.securityHeaderParsed = FALSE /\ Len(ret.pdu) >= 2
          /\ ret.pdu[2] # 0) =>
         IF Len(ret.pdu) < 7
         THEN ret.panic # 0 /\ ret.strips = 0 /\ ret.hdr = 0
         ELSE /\ ret.strips = 1
              /\ ret.entryFlags = <<FALSE, TRUE>>
              /\ IF Len(ret.pdu) < 10 THEN ret.panic # 0 /\ ret.hdr = 0
                 ELSE ret.hdr = 10 /\ ret.msgType = ret.pdu[10]

\* C4 witness: a wrapped PDU whose inner security header byte is not 0 either.
C4_Witness ==
  /\ ret.op = "Decode"
  /\ ret.pre.securityHeaderParsed = FALSE
  /\ Len(ret.pdu) >= 10
  /\ ret.pdu[2] # 0
  /\ ret.pdu[9] # 0
  /\ ret.strips = 1
  /\ ret.hdr = 10
  /\ ret.panic = 0

\* C5: after every Decode that returns, securityHeaderParsed is FALSE; so
\* unless the most recent Decode panicked the flag is FALSE, and a top-level
\* Decode that follows a returned one is entered with the flag FALSE.
C5_FlagResetOnReturn ==
  /\ (ret.op = "Decode" /\ ret.panic = 0) => securityHeaderParsed = FALSE
  /\ lastDecode # "panic" => securityHeaderParsed = FALSE
  /\ (ret.op = "Decode" /\ ret.pre.lastDecode # "panic") =>
       ret.entryFlags[1] = FALSE

\* C5 witness: a security-wrapped Authentication Request with a wrong MAC,
\* decoded after an earlier Decode, has returned.
C5_Witness ==
  /\ ret.op = "Decode"
  /\ ret.panic = 0
  /\ ret.strips = 1
  /\ ret.auth = "mismatch"
  /\ ret.pre.lastDecode = "returned"
  /\ securityHeaderParsed = FALSE

\* C6 (as claimed): Decode of a buffer shorter than the fields it announces
\* ends with an error value, not with a run-time panic, and reads no byte at
\* or beyond the end of the received bytes.
C6_TruncatedFailsAsValue ==
  ret.op = "Decode" => (ret.panic = 0 /\ ret.hi <= Len(ret.pdu))

\* the records of the IE loop that decoded an AUTN IE of declared length 16
\* to its end
Autn16(r) ==
  {i \in 1..Len(r.ies) : /\ r.ies[i].iei = ieiAuthParamAUTN
                         /\ r.ies[i].panic = 0
                         /\ r.pdu[r.ies[i].at + 2] = 16}

\* C7: an AUTN IE whose length octet is 16 moves the cursor by 1 + 16 bytes
\* past the tag and is stored as SEQ xor AK (value bytes 1..6), AMF (7..8)
\* and MAC (9..16); 00112233445566778899AABBCCDDEEFF gives 001122334455,
\* 6677 and 8899AABBCCDDEEFF.
C7_AutnSplit ==
  ret.op = "Decode" =>
    /\ \A i \in Autn16(ret) : ret.ies[i].end = ret.ies[i].at + 1 + 1 + 16
    /\ \A i \in Autn16(ret) :
         (\A j \in (i + 1)..Len(ret.ies) : ret.ies[j].iei # ieiAuthParamAUTN) =>
           LET v == ret.ies[i].at + 2
           IN /\ AuthParam.autn = SubSeq(ret.pdu, v + 1, v + 16)
              /\ AuthParam.seqxorak = SubSeq(ret.pdu, v + 1, v + 6)
              /\ AuthParam.amf = SubSeq(ret.pdu, v + 7, v + 8)
              /\ AuthParam.mac = SubSeq(ret.pdu, v + 9, v + 16)
              /\ AuthParam.autn = ExampleAUTN =>
                   /\ AuthParam.seqxorak = <<0, 17, 34, 51, 68, 85>>
                   /\ AuthParam.amf = <<102, 119>>
                   /\ AuthParam.mac = <<136, 153, 170, 187, 204, 221, 238, 255>>

\* C7 witness: the AUTN of the example has been decoded after two other IEs.
C7_Witness ==
  /\ ret.op = "Decode"
  /\ Len(ret.ies) = 3
  /\ 3 \in Autn16(ret)
  /\ AuthParam.autn = ExampleAUTN
  /\ AuthParam.mac = <<136, 153, 170, 187, 204, 221, 238, 255>>

\* the identifiers the switch of decInformationElement has a case for
HandledIEs == {ieiIMEISVRequest, ieiAuthParamAUTN, ieiAuthParamRAND,
               ieiAdditional5GSecurityInformation}

\* C8 (as claimed): in a Decode that returns, an identifier the dispatch does
\* not handle ends the IE loop with the rest of the buffer discarded, and no
\* AuthParam slice assigned by the call holds a byte that lies after that
\* identifier.
C8_StopAtUnhandledIE ==
  (ret.op = "Decode" /\ ret.panic = 0) =>
    \A i \in 1..Len(ret.ies) :
      ret.ies[i].iei \notin HandledIEs =>
        /\ i = Len(ret.ies)
        /\ ret.rest = <<>>
        /\ \A f \in DOMAIN ret.ref :
             ret.ref[f] # <<>> =>
               ret.ref[f][1] + ret.ref[f][2] <= ret.ies[i].at + 1

\* C9: for a message type other than Authentication Request and Security
\* Mode Command, Decode returns that type, having consumed the header bytes
\* only (EPD, security header and message type, and before them the outer
\* EPD and security header and the 5 wrapper bytes of a wrapped PDU), and
\* leaves the rest of the cursor and AuthParam, RES* included, as they were.
C9_OtherMessageNoOp ==
  (ret.op = "Decode" /\ ret.hdr > 0
     /\ ret.msgType \notin {MessageTypeAuthenticationRequest,
                            MessageTypeSecurityModeCommand}) =>
    /\ ret.panic = 0
    /\ ret.hdr = 3 + (2 + 5) * ret.strips
    /\ ret.msgType = ret.pdu[ret.hdr]
    /\ ret.rest = SubSeq(ret.pdu, ret.hdr + 1, Len(ret.pdu))
    /\ ret.ies = <<>>
    /\ AuthParam = ret.pre.AuthParam

\* C9 witness: a wrapped Registration Request decoded on a context that
\* holds a RES*.
C9_Witness ==
  /\ ret.op = "Decode"
  /\ ret.msgType = MessageTypeRegistrationRequest
  /\ ret.hdr = 10
  /\ ret.rest # <<>>
  /\ AuthParam.RESstar # <<>>

\* C10 (as claimed): MakeAuthenticationResponse returns 7E 00 57 2D 10 and
\* then the bytes of AuthParam.RESstar, 21 bytes in all, in every state.
C10_ResponseIsRESstar ==
  ret.op = "MakeAuthenticationResponse" =>
    /\ Len(ret.out) = 21
    /\ ret.out = <<126, 0, 87, 45, 16>> \o AuthParam.RESstar

\* C10 (amended): MakeAuthenticationResponse returns 21 bytes, 7E 00 57 2D
\* 10 and then 16 value bytes: AuthParam.RESstar when it is set (it then has
\* 16 bytes) and 16 zero bytes when it is not.
C10_ResponseLayout ==
  /\ Len(AuthParam.RESstar) \in {0, 16}
  /\ ret.op = "MakeAuthenticationResponse" =>
       /\ Len(ret.out) = 21
       /\ SubSeq(ret.out, 1, 5) = <<126, 0, 87, 45, 16>>
       /\ SubSeq(ret.out, 6, 21) =
            (IF AuthParam.RESstar = <<>> THEN [i \in 1..16 |-> 0]
             ELSE AuthParam.RESstar)

\* C10 witness: a response built from a RES* that a challenge produced.
C10_Witness ==
  /\ ret.op = "MakeAuthenticationResponse"
  /\ Len(AuthParam.RESstar) = 16
  /\ lastAuth = "match"
  /\ SubSeq(ret.out, 6, 21) = AuthParam.RESstar

\* "5G:mnc" + mnc in 3 digits + ".mcc" + mcc in 3 digits + ".3gppnetwork.org"
ServingNetworkName(mcc, mnc) ==
  LET d3(n) == <<48 + (n \div 100), 48 + ((n \div 10) % 10), 48 + (n % 10)>>
  IN <<53, 71, 58, 109, 110, 99>> \o d3(mnc) \o <<46, 109, 99, 99>> \o d3(mcc)
       \o <<46, 51, 103, 112, 112, 110, 101, 116, 119, 111, 114, 107,
            46, 111, 114, 103>>

\* C11: ComputeRESstar returns bytes 16..31 of H(CK || IK, S) with
\* S = 0x6B || P0 || L0 || RAND || L1 || RES || L2, P0 the serving network
\* name and each Li the 2-byte big-endian length of the parameter before it;
\* rand, res, ck and ik hold after the call what they held before it.
C11_RESstarFormat ==
  ret.op = "ComputeRESstar" =>
    LET a == ret.args
        be16(n) == <<n \div 256, n % 256>>
        P0 == ServingNetworkName(a.mcc, a.mnc)
        S == <<107>> \o P0 \o be16(Len(P0)) \o a.rand \o be16(Len(a.rand))
               \o a.res \o be16(Len(a.res))
        H == HmacSha256(a.ck \o a.ik, S)
    IN /\ Len(H) = 32
       /\ ret.out.resstar = [i \in 1..16 |-> H[16 + i]]
       /\ ret.out.rand = a.rand /\ ret.out.res = a.res /\ ret.out.ik = a.ik
       /\ SubSeq(ret.out.ckArray, 1, Len(a.ck)) = a.ck

\* C11 witness: RES* has been derived for MCC 1, MNC 1 with a CK whose
\* backing array took the appended IK
C11_Witness ==
  /\ ret.op = "ComputeRESstar"
  /\ ret.args.mcc = 1 /\ ret.args.mnc = 1 /\ ret.args.rand = RAND1
  /\ Len(ret.out.resstar) = 16
  /\ Len(ret.out.ckArray) = 48
  /\ SubSeq(ret.out.ckArray, 17, 32) = ret.args.ik

\* the digit a nibble stands for, the letters in lower case
NibbleChar(n) == IF n < 10 THEN 48 + n ELSE 87 + n

\* a packed string unpacked: of each byte the low nibble, then the high one
Unpack(bcd) ==
  [i \in 1..(2 * Len(bcd)) |->
     IF i % 2 = 1 THEN NibbleChar(bcd[(i + 1) \div 2] % 16)
     ELSE NibbleChar(bcd[i \div 2] \div 16)]

\* the digits 0-9 and the letters a-f in lower case
LowerHex == (48..57) \cup (97..102)

\* a letter A-F in lower case, every other character as it is
ToLower(ch) == IF ch \in 65..70 THEN ch + 32 ELSE ch

\* C13 (as claimed): for an even-length string s of hex digits Str2BCD(s) has
\* len(s)/2 bytes, unpacking it low nibble first gives s back, and no other
\* string of that length has the same encoding.
C13_Str2BCDRoundTrip ==
  (ret.op = "Str2BCD" /\ Len(ret.args) % 2 = 0) =>
    /\ Len(ret.out) = Len(ret.args) \div 2
    /\ Unpack(ret.out) = ret.args
    /\ \A s \in DigitStrings(Len(ret.args)) :
         Str2BCD(s) = ret.out => s = ret.args

\* C13: for an even-length string s of hex digits Str2BCD(s) has len(s)/2
\* bytes, byte j holding the value of digit 2j in its low nibble and that of
\* digit 2j+1 in its high nibble; unpacking gives s back with its letters in
\* lower case, and the strings with the same encoding are those that differ
\* from s in the case of letters only.  On strings of 0-9 and a-f the round
\* trip is exact and Str2BCD is injective.
C13_Str2BCDRoundTripLower ==
  (ret.op = "Str2BCD" /\ Len(ret.args) % 2 = 0) =>
    LET s == ret.args
        lower(x) == [i \in 1..Len(x) |-> ToLower(x[i])]
    IN /\ Len(ret.out) = Len(s) \div 2
       /\ \A j \in 1..Len(ret.out) :
            /\ NibbleChar(ret.out[j] % 16) = ToLower(s[2 * j - 1])
            /\ NibbleChar(ret.out[j] \div 16) = ToLower(s[2 * j])
       /\ Unpack(ret.out) = lower(s)
       /\ \A x \in DigitStrings(Len(s)) :
            Str2BCD(x) = ret.out <=> lower(x) = lower(s)
       /\ (\A i \in 1..Len(s) : s[i] \in LowerHex) => Unpack(ret.out) = s

\* C13 witness: "19af" has been packed into 91 FA
C13_Witness ==
  /\ ret.op = "Str2BCD"
  /\ ret.args = <<49, 57, 97, 102>>
  /\ ret.out = <<145, 250>>

\* the nibbles of a byte string, of each byte the low one first
Nibbles(b) ==
  [i \in 1..(2 * Len(b)) |->
     IF i % 2 = 1 THEN b[(i + 1) \div 2] % 16 ELSE b[i \div 2] \div 16]

\* the three decimal digits of n in 0..999
Digits3(n) == <<n \div 100, (n \div 10) % 10, n % 10>>

\* the PLMN field of a Registration Request: bytes 7 to 9 of the PDU
PlmnOf(pdu) == SubSeq(pdu, 8, 10)

\* C12 (as claimed): the six nibbles of the PLMN field of the Registration
\* Request are the three MCC digits, the filler F and the two MNC digits for
\* an MNC below 100, and the three MCC digits then the three MNC digits for
\* an MNC of 100 to 999.
C12_PlmnNibbles ==
  (ret.op = "MakeRegistrationRequest" /\ ret.panic = 0) =>
    Nibbles(PlmnOf(ret.out)) =
      IF MNC < 100 THEN Digits3(MCC) \o <<15>> \o SubSeq(Digits3(MNC), 2, 3)
      ELSE Digits3(MCC) \o Digits3(MNC)

\* C14 (as claimed): for every profile MakeRegistrationRequest returns 28
\* bytes: 7E 00 41 79, the identity length 00 0D, then the 13 identity bytes
\* (01, 3 PLMN bytes, 2 routing indicator BCD bytes, 00, 00, 5 MSIN BCD
\* bytes), then 10 01 20 and 2E 04 80 A0 00 00.
C14_RegistrationRequestLayout ==
  ret.op = "MakeRegistrationRequest" =>
    LET pad(b, n) == [i \in 1..n |-> IF i <= Len(b) THEN b[i] ELSE 0]
    IN /\ ret.panic = 0
       /\ Len(ret.out) = 28
       /\ SubSeq(ret.out, 1, 7) = <<126, 0, 65, 121, 0, 13, 1>>
       /\ SubSeq(ret.out, 11, 12) = pad(Str2BCD(SprintfD(RoutingIndicator)), 2)
       /\ SubSeq(ret.out, 13, 14) = <<0, 0>>
       /\ SubSeq(ret.out, 15, 19) = pad(Str2BCD(MSIN), 5)
       /\ SubSeq(ret.out, 20, 28) = <<16, 1, 32, 46, 4, 128, 160, 0, 0>>

\* C15 (as claimed): when no Decode has panicked and seqxorak, amf and mac
\* are set, the stored AUTN has exactly 16 bytes and they are its bytes 0-5,
\* 6-7 and 8-15; a stored RAND has exactly 16 bytes.
C15_AutnExactly16 ==
  lastDecode # "panic" =>
    /\ (AuthParam.seqxorak # <<>> /\ AuthParam.amf # <<>> /\ AuthParam.mac # <<>>) =>
         /\ Len(AuthParam.autn) = 16
         /\ AuthParam.seqxorak = SubSeq(AuthParam.autn, 1, 6)
         /\ AuthParam.amf = SubSeq(AuthParam.autn, 7, 8)
         /\ AuthParam.mac = SubSeq(AuthParam.autn, 9, 16)
    /\ AuthParam.rand # <<>> => Len(AuthParam.rand) = 16

\* C16 (as claimed): every iteration of the IE loop that does not panic
\* consumes the encoding of its IE and no more: 1 byte for an IMEISV request,
\* tag, length octet and that many bytes for AUTN and for a replayed UE
\* security capability, tag and 16 bytes for RAND.
C16_RecognizedIEConsumption ==
  ret.op = "Decode" =>
    \A i \in 1..Len(ret.ies) :
      LET e == ret.ies[i]
          lengthOctet == ret.pdu[e.at + 2]
      IN e.panic = 0 =>
           /\ e.iei = ieiIMEISVRequest => e.end = e.at + 1
           /\ e.iei = ieiAuthParamAUTN => e.end = e.at + 2 + lengthOctet
           /\ e.iei = ieiAuthParamRAND => e.end = e.at + 1 + randlen
           /\ e.iei = ieiUESecurityCapability => e.end = e.at + 2 + lengthOctet

\* C17 (as claimed): a Decode of an Authentication Request whose MAC check
\* passes, and which so derives a RES*, has taken both the RAND and the AUTN
\* it verified from IEs of its own PDU.
C17_ChallengeUsedOnce ==
  (ret.op = "Decode" /\ ret.auth = "match") =>
    /\ ret.ref.rand # <<>>
    /\ ret.ref.autn # <<>>

\* C18: every iteration of the IE loop either leaves a strictly shorter
\* cursor or panics, whatever the tag byte, and so every call of
\* decInformationElement ends.
C18_IELoopTerminates ==
  /\ [][(pc = "loop" /\ pc' = "loop") =>
          (ret'.args.len < ret.args.len \/ ret'.args.panic # 0)]_vars
  /\ (pc = "loop") ~> (pc = "returned")

\* C18 witness: the loop has ended without a panic on a block that starts
\* with the Additional 5G Security Information IE and goes on with a compact
\* tag
C18_Witness ==
  /\ pc = "returned"
  /\ ret.op = "decInformationElement"
  /\ ret.pdu = IEs[7] \o IEs[6]
  /\ ret.panic = 0
  /\ ret.rest = <<>>

\* the message behind the outer header and the 5 wrapper bytes of a PDU
Wrapped(pdu) == SubSeq(pdu, 8, Len(pdu))

\* Decode of the PDU m alone, in a buffer with spare bytes behind it, on the
\* context the call recorded in ret started from
DecodeAlone(m, spare) ==
  Decode(StartCtx([b |-> m, spare |-> Junk(spare)], ret.pre.AuthParam,
                  ret.pre.securityHeaderParsed, MCC, MNC))

\* C19 (as claimed): a Decode of a PDU made of EPD, a non-zero security
\* header, 5 wrapper bytes and a message M whose own security header is plain
\* ends as Decode of M alone does on the same context: it returns when that
\* one returns, with the same message type, and leaves the same AuthParam,
\* RES* included, the same securityHeaderParsed and the same leftover cursor.
C19_WrapperTransparent ==
  (/\ ret.op = "Decode"
   /\ Len(ret.pdu) >= 9
   /\ ret.pdu[2] # SecurityHeaderTypePlain
   /\ ret.pdu[9] = SecurityHeaderTypePlain) =>
    LET r == DecodeAlone(Wrapped(ret.pdu), ret.cap - Len(ret.pdu))
    IN /\ (ret.panic = 0) = (r.panic = 0)
       /\ ret.msgType = r.msgType
       /\ AuthParam = AuthParamAfter(r)
       /\ securityHeaderParsed = r.flag
       /\ ret.rest = Rest(r)

\* C19, for the calls that start with securityHeaderParsed false on a
\* message M whose Decode returns: the wrapped PDU gives the message type,
\* the AuthParam, the flag and the leftover cursor that M alone gives.
C19_TransparentOnReturn ==
  (/\ ret.op = "Decode"
   /\ ret.pre.securityHeaderParsed = FALSE
   /\ Len(ret.pdu) >= 9
   /\ ret.pdu[2] # SecurityHeaderTypePlain
   /\ ret.pdu[9] = SecurityHeaderTypePlain) =>
    LET r == DecodeAlone(Wrapped(ret.pdu), ret.cap - Len(ret.pdu))
    IN r.panic = 0 =>
         /\ ret.panic = 0
         /\ ret.msgType = r.msgType
         /\ AuthParam = AuthParamAfter(r)
         /\ securityHeaderParsed = r.flag
         /\ ret.rest = Rest(r)

\* C19_TransparentOnReturn is not vacuous: a wrapped Authentication Request has been decoded as the
\* request alone would be, its MAC check passed and RES* derived
C19_TransparentReached ==
  /\ ret.op = "Decode"
  /\ ret.pre.securityHeaderParsed = FALSE
  /\ ret.pdu = WrapHdr(0) \o AuthBody(<<1, 3>>)
  /\ ret.strips = 1
  /\ ret.auth = "match"
  /\ AuthParam = AuthParamAfter(DecodeAlone(Wrapped(ret.pdu), 0))

\* C20 (as claimed): a Decode that panics leaves securityHeaderParsed false
\* and AuthParam as it was before the call, and so every Decode of a PDU with
\* a non-zero security header and the 5 wrapper bytes strips that wrapper.
C20_FailedDecodeLeavesContext ==
  ret.op = "Decode" =>
    /\ ret.panic # 0 =>
         /\ securityHeaderParsed = FALSE
         /\ AuthParam = ret.pre.AuthParam
    /\ (Len(ret.pdu) >= 7 /\ ret.pdu[2] # SecurityHeaderTypePlain) =>
         ret.strips = 1

====
